---- MODULE Spec2Model ----
(***************************************************************************)
(* State-machine model of the two React views of the carbon-credit         *)
(* dashboard: Dashboard (src/src/components/Dashboard.tsx) and             *)
(* RequestsReceived (src/unnamed/part_000).                                *)
(*                                                                         *)
(* One view is mounted per page load (each view leaves through             *)
(* window.location.href), so `view` is chosen in Init and the other        *)
(* view's useState cells keep their initial values.                        *)
(*                                                                         *)
(* JavaScript runs one task at a time, so the code of a handler between    *)
(* two awaits is one atomic action.  A task that calls api.get/post/...    *)
(* leaves the HTTP requests in `sent` until they are on the wire           *)
(* (Transmit) and a promise, with what the code after the await still      *)
(* reads, in the bag `calls`.  The backend settles a promise (Respond...)  *)
(* and the code after its await (...Then, ...Catch) runs before the next   *)
(* event is dispatched.  window.confirm suspends the handler that opened   *)
(* it: `dialog` holds that handler and the user's answer.                  *)
(***************************************************************************)
EXTENDS Bags, FiniteSets, Integers, Sequences, TLC

\* ------------------------------------------------------------- bounds ---
NumReq == 2         \* requests the backend knows, ids 1..NumReq
MaxInFlight == 2    \* user-started API calls awaiting their response
MaxTick == 1        \* milliseconds the clock advances past the start

\* ---------------------------------------------------------- constants ---
MsPerDay == 1000 * 60 * 60 * 24
SevenDaysMs == 7 * 24 * 60 * 60 * 1000

Undefined == "<undefined>"
NoId == 0
NaN == 0 - 1

ReqIds == 1..NumReq

\* epoch milliseconds of new Date(req.created_at) for the request with this
\* id, the clock starting at SevenDaysMs: request 1 turns exactly seven days
\* old at the last tick, request 2 is a millisecond past seven days from the
\* start, request 3 two milliseconds, and so on.
CreatedAt(id) == IF id = 1 THEN MaxTick ELSE 1 - id

\* what GET /requests/received or GET /requests/made can answer: the
\* requests in id order, any of them missing
Lists == { s \in UNION { [1..n -> ReqIds] : n \in 0..NumReq } :
             \A i \in 1..Len(s) : \A j \in 1..Len(s) : i < j => s[i] < s[j] }

\* the message of an error response: absent, or some text
BackendMessages == { Undefined, "Forbidden" }

Actions == { "ACCEPT", "REJECT" }

\* ---------------------------------------------- Dashboard: backend data ---
\* balance === null
NoBalance == [companyName |-> "", carbonBalance |-> 0, cashBalance |-> 0]

\* what GET /company/balance can answer
Balances == { [companyName |-> "Acme", carbonBalance |-> 100,
               cashBalance |-> 5000] }

\* what GET /company/list can answer (company ids)
CompanyLists == { << 1 >> }

\* the fields of the made request with this id
RecipientId(id) == 1
Type(id) == IF id % 2 = 1 THEN "SELL" ELSE "BUY"
Price(id) == 12
Quantity(id) == 5
Reason(id) == IF id = 1 THEN Undefined ELSE "offset"

\* what the user can leave in a control of the request form: a value, or
\* the control emptied again
PriceInputs == { "", "12" }
QuantityInputs == { "", "5" }
ReasonInputs == { "", "offset" }
TypeOptions == { "BUY", "SELL" }

\* -------------------------------------------------------------- state ---
VARIABLES
  view,              \* which component is mounted
  mounted,           \* the useEffect(..., []) of the component has run
  now,               \* the clock, new Date().getTime()
  calls,             \* bag of promises of API calls not yet continued
  sent,              \* HTTP requests issued by the current task
  dialog,            \* the handler suspended in window.confirm
  loading, error, requests,            \* both views
  selectedIds, showOverdueAlert, overdueRequests,      \* RequestsReceived
  balance, companies, showRequestForm, editingRequest, formData \* Dashboard

vars == << view, mounted, now, calls, sent, dialog, loading, error, requests,
           selectedIds, showOverdueAlert, overdueRequests,
           balance, companies, showRequestForm, editingRequest, formData >>

receivedVars == << selectedIds, showOverdueAlert, overdueRequests >>
dashboardVars == << balance, companies, showRequestForm, editingRequest,
                    formData >>

\* ------------------------------------------------------------ helpers ---
Elems(s) == { s[i] : i \in 1..Len(s) }

Includes(s, x) == \E i \in 1..Len(s) : s[i] = x

RECURSIVE Filter(_, _)
\* Array.prototype.filter, the predicate given as the set it accepts
Filter(s, keep) ==
  IF s = << >> THEN << >>
  ELSE IF Head(s) \in keep THEN << Head(s) >> \o Filter(Tail(s), keep)
       ELSE Filter(Tail(s), keep)

ToLowerCase(a) ==
  CASE a = "ACCEPT" -> "accept"
    [] a = "REJECT" -> "reject"
    [] OTHER -> a

Digit(d) ==
  CASE d = 0 -> "0" [] d = 1 -> "1" [] d = 2 -> "2" [] d = 3 -> "3"
    [] d = 4 -> "4" [] d = 5 -> "5" [] d = 6 -> "6" [] d = 7 -> "7"
    [] d = 8 -> "8" [] d = 9 -> "9"

RECURSIVE toString(_)
\* Number.prototype.toString of a non-negative integer
toString(n) ==
  IF n < 10 THEN Digit(n) ELSE toString(n \div 10) \o Digit(n % 10)

Parseable == 0..99

\* parseInt of "" or of a canonical decimal numeral
parseInt(str) ==
  IF \E n \in Parseable : toString(n) = str
  THEN CHOOSE n \in Parseable : toString(n) = str
  ELSE NaN

\* parseFloat of "" or of a canonical decimal numeral without a fraction
parseFloat(str) == parseInt(str)

\* mutant of ErrorText: the message of the response is not looked up
ErrorTextFallbackOnly(message, fallback) == fallback

\* err.response?.data?.message || fallback
ErrorText(message, fallback) ==
  IF message = Undefined \/ message = "" THEN fallback ELSE message

\* an HTTP request as handed to axios
Request(method, url, id, body) ==
  [method |-> method, url |-> url, id |-> id, body |-> body]

NoBody == [none |-> TRUE]

Put(c) == calls (+) SetToBag({c})
Take(c) == calls (-) SetToBag({c})
Swap(c, d) == (calls (-) SetToBag({c})) (+) SetToBag({d})
InFlight == BagCardinality(calls)
Settled(op, st) == { c \in BagToSet(calls) : c.op = op /\ c.st = st }

\* window.confirm: fn is the suspended handler with the action, id and
\* selectedIds of its closure; answer is "open" until the user picks OK
\* ("yes") or Cancel ("no")
NoDialog ==
  [fn |-> "", action |-> "", id |-> NoId, ids |-> << >>, answer |-> ""]

\* The event loop is between tasks: no request still to be written, no
\* promise settled with its continuation still to run, no handler suspended
\* in window.confirm.  Only then is a click, a response or a clock tick
\* seen.
Idle ==
  /\ dialog = NoDialog
  /\ sent = << >>
  /\ \A c \in BagToSet(calls) : c.st = "pending"

\* the component is rendered (not the Loading... placeholder) and takes a
\* click
Interactive(v) == view = v /\ mounted /\ ~loading /\ Idle

\* the code after the await of a settled promise can run
CanRun(v) == view = v /\ dialog = NoDialog /\ sent = << >>

\* the requests of a task go on the wire
Transmit ==
  /\ sent # << >>
  /\ sent' = << >>
  /\ UNCHANGED << view, mounted, now, calls, dialog, loading, error,
                  requests, receivedVars, dashboardVars >>

\* the user presses OK or Cancel in the confirm dialog
AnswerConfirm ==
  /\ dialog.answer = "open"
  /\ \E a \in { "yes", "no" } : dialog' = [dialog EXCEPT !.answer = a]
  /\ UNCHANGED << view, mounted, now, calls, sent, loading, error, requests,
                  receivedVars, dashboardVars >>

\* ------------------------------------------ RequestsReceived: fetching ---
FetchRequestsPromise ==
  [op |-> "fetchRequests", st |-> "pending", data |-> << >>,
   message |-> Undefined]

GetReceived == Request("GET", "/requests/received", NoId, NoBody)

\* mutant of OverdueAtFetch: the comparison lets the boundary in
OverdueAtFetchInclusive(list) ==
  LET sevenDaysAgo == now - SevenDaysMs
  IN Filter(list, { r \in ReqIds : CreatedAt(r) <= sevenDaysAgo })

\* new Date(req.created_at) < sevenDaysAgo
OverdueAtFetch(list) ==
  LET sevenDaysAgo == now - SevenDaysMs
  IN Filter(list, { r \in ReqIds : CreatedAt(r) < sevenDaysAgo })

\* isOverdue(request.created_at): (now - requestDate) / MsPerDay > 7, the
\* division being the exact one
isOverdue(id) == (now - CreatedAt(id)) > 7 * MsPerDay

MountReceived ==
  /\ view = "RequestsReceived" /\ ~mounted
  /\ mounted' = TRUE
  /\ loading' = TRUE                                   \* fetchRequests()
  /\ sent' = << GetReceived >>
  /\ calls' = Put(FetchRequestsPromise)
  /\ UNCHANGED << view, now, dialog, error, requests, receivedVars,
                  dashboardVars >>

RespondFetchRequests ==
  \E c \in Settled("fetchRequests", "pending") :
    /\ Idle
    /\ \/ \E list \in Lists :
            calls' = Swap(c, [c EXCEPT !.st = "ok", !.data = list])
       \/ \E m \in BackendMessages :
            calls' = Swap(c, [c EXCEPT !.st = "err", !.message = m])
    /\ UNCHANGED << view, mounted, now, sent, dialog, loading, error,
                    requests, receivedVars, dashboardVars >>

\* fetchRequests after the await, the try block and finally
FetchRequestsThen ==
  \E c \in Settled("fetchRequests", "ok") :
    /\ CanRun("RequestsReceived")
    /\ requests' = c.data
    /\ LET overdue == OverdueAtFetch(c.data)
       IN IF Len(overdue) > 0
          THEN overdueRequests' = overdue /\ showOverdueAlert' = TRUE
          ELSE UNCHANGED << overdueRequests, showOverdueAlert >>
    /\ error' = ""
    /\ loading' = FALSE
    /\ calls' = Take(c)
    /\ UNCHANGED << view, mounted, now, sent, dialog, selectedIds,
                    dashboardVars >>

\* fetchRequests after the await, catch and finally
FetchRequestsCatch ==
  \E c \in Settled("fetchRequests", "err") :
    /\ CanRun("RequestsReceived")
    /\ error' = ErrorText(c.message, "Failed to fetch requests")
    /\ loading' = FALSE
    /\ calls' = Take(c)
    /\ UNCHANGED << view, mounted, now, sent, dialog, requests,
                    receivedVars, dashboardVars >>

\* --------------------------- RequestsReceived: accept / reject one row ---
\* id is not read after the await, action is (in the catch)
ProcessPromise(action) ==
  [op |-> "handleProcessRequest", action |-> action, st |-> "pending",
   message |-> Undefined]

PostProcess(id, action) ==
  Request("POST", "/requests/{id}/process", id, [action |-> action])

\* the Accept / Reject button of a table row, up to the await
handleProcessRequest(id, action) ==
  /\ Interactive("RequestsReceived")
  /\ Includes(requests, id)
  /\ InFlight < MaxInFlight
  /\ sent' = << PostProcess(id, action) >>
  /\ calls' = Put(ProcessPromise(action))
  /\ UNCHANGED << view, mounted, now, dialog, loading, error, requests,
                  receivedVars, dashboardVars >>

\* the backend answers a call whose response body the views do not read
RespondMutation ==
  \E c \in BagToSet(calls) :
    /\ Idle
    /\ c.op \in { "handleProcessRequest", "handleCreateRequest",
                  "handleUpdateRequest", "handleDeleteRequest" }
    /\ \/ calls' = Swap(c, [c EXCEPT !.st = "ok"])
       \/ \E m \in BackendMessages :
            calls' = Swap(c, [c EXCEPT !.st = "err", !.message = m])
    /\ UNCHANGED << view, mounted, now, sent, dialog, loading, error,
                    requests, receivedVars, dashboardVars >>

ProcessThen ==
  \E c \in Settled("handleProcessRequest", "ok") :
    /\ CanRun("RequestsReceived")
    /\ loading' = TRUE                                 \* fetchRequests()
    /\ sent' = << GetReceived >>
    /\ calls' = Swap(c, FetchRequestsPromise)
    /\ selectedIds' = << >>
    /\ UNCHANGED << view, mounted, now, dialog, error, requests,
                    showOverdueAlert, overdueRequests, dashboardVars >>

ProcessCatch ==
  \E c \in Settled("handleProcessRequest", "err") :
    /\ CanRun("RequestsReceived")
    /\ error' = ErrorText(c.message,
                          "Failed to " \o ToLowerCase(c.action) \o " request")
    /\ calls' = Take(c)
    /\ UNCHANGED << view, mounted, now, sent, dialog, loading, requests,
                    receivedVars, dashboardVars >>

\* ------------------------------------- RequestsReceived: bulk process ---
\* neither selectedIds nor action is read after the await; successful and
\* failed are the lengths of res.data.results.successful and .failed
BulkPromise ==
  [op |-> "handleBulkProcess", st |-> "pending", successful |-> 0,
   failed |-> 0, message |-> Undefined]

PostBulk(ids, action) ==
  Request("POST", "/requests/bulk-process", NoId,
          [requestIds |-> ids, action |-> action])

\* Accept Selected / Reject Selected, up to window.confirm.  The bar is
\* rendered for a non-empty table only and its buttons are disabled while
\* nothing is selected.
handleBulkProcess(action) ==
  /\ Interactive("RequestsReceived")
  /\ Len(requests) > 0
  /\ ~(Len(selectedIds) = 0)
  /\ InFlight < MaxInFlight
  /\ IF Len(selectedIds) = 0
     THEN dialog' = dialog                             \* alert(...); return
     ELSE dialog' = [fn |-> "handleBulkProcess", action |-> action,
                     id |-> NoId, ids |-> selectedIds, answer |-> "open"]
  /\ UNCHANGED << view, mounted, now, calls, sent, loading, error, requests,
                  receivedVars, dashboardVars >>

\* mutant of BulkAfterConfirm: the result of window.confirm is not tested
BulkAfterConfirmUnasked ==
  /\ view = "RequestsReceived"
  /\ dialog.fn = "handleBulkProcess" /\ dialog.answer \in { "yes", "no" }
  /\ dialog' = NoDialog
  /\ sent' = << PostBulk(dialog.ids, dialog.action) >>
  /\ calls' = Put(BulkPromise)
  /\ UNCHANGED << view, mounted, now, loading, error, requests,
                  receivedVars, dashboardVars >>

\* handleBulkProcess from the return of window.confirm to the await
BulkAfterConfirm ==
  /\ view = "RequestsReceived"
  /\ dialog.fn = "handleBulkProcess" /\ dialog.answer \in { "yes", "no" }
  /\ dialog' = NoDialog
  /\ IF dialog.answer = "no"
     THEN UNCHANGED << calls, sent >>                  \* return
     ELSE /\ sent' = << PostBulk(dialog.ids, dialog.action) >>
          /\ calls' = Put(BulkPromise)
  /\ UNCHANGED << view, mounted, now, loading, error, requests,
                  receivedVars, dashboardVars >>

RespondBulk ==
  \E c \in Settled("handleBulkProcess", "pending") :
    /\ Idle
    /\ \/ \E f \in 0..NumReq :
            calls' = Swap(c, [c EXCEPT !.st = "ok", !.failed = f,
                                       !.successful = NumReq - f])
       \/ \E m \in BackendMessages :
            calls' = Swap(c, [c EXCEPT !.st = "err", !.message = m])
    /\ UNCHANGED << view, mounted, now, sent, dialog, loading, error,
                    requests, receivedVars, dashboardVars >>

\* mutant of BulkThen: the selection is kept when an item failed
BulkThenClearingOnFullSuccess ==
  \E c \in Settled("handleBulkProcess", "ok") :
    /\ CanRun("RequestsReceived")
    /\ loading' = TRUE
    /\ sent' = << GetReceived >>
    /\ calls' = Swap(c, FetchRequestsPromise)
    /\ selectedIds' = IF c.failed = 0 THEN << >> ELSE selectedIds
    /\ UNCHANGED << view, mounted, now, dialog, error, requests,
                    showOverdueAlert, overdueRequests, dashboardVars >>

BulkThen ==
  \E c \in Settled("handleBulkProcess", "ok") :
    /\ CanRun("RequestsReceived")
    \* alert(`Successfully processed: ... Failed: ...`) changes no state
    /\ loading' = TRUE                                 \* fetchRequests()
    /\ sent' = << GetReceived >>
    /\ calls' = Swap(c, FetchRequestsPromise)
    /\ selectedIds' = << >>
    /\ UNCHANGED << view, mounted, now, dialog, error, requests,
                    showOverdueAlert, overdueRequests, dashboardVars >>

BulkCatch ==
  \E c \in Settled("handleBulkProcess", "err") :
    /\ CanRun("RequestsReceived")
    /\ error' = ErrorText(c.message, "Failed to process requests")
    /\ calls' = Take(c)
    /\ UNCHANGED << view, mounted, now, sent, dialog, loading, requests,
                    receivedVars, dashboardVars >>

\* ---------------------------------------- RequestsReceived: selection ---
handleCheckboxChange(id) ==
  /\ Interactive("RequestsReceived")
  /\ Includes(requests, id)
  /\ selectedIds' = IF Includes(selectedIds, id)
                    THEN Filter(selectedIds, ReqIds \ { id })
                    ELSE selectedIds \o << id >>
  /\ UNCHANGED << view, mounted, now, calls, sent, dialog, loading, error,
                  requests, showOverdueAlert, overdueRequests,
                  dashboardVars >>

handleSelectAll ==
  /\ Interactive("RequestsReceived")
  /\ Len(requests) > 0
  /\ selectedIds' = IF Len(selectedIds) = Len(requests)
                    THEN << >>
                    ELSE requests
  /\ UNCHANGED << view, mounted, now, calls, sent, dialog, loading, error,
                  requests, showOverdueAlert, overdueRequests,
                  dashboardVars >>

\* the Close button or a click on the overlay of the overdue alert
CloseOverdueAlert ==
  /\ Interactive("RequestsReceived")
  /\ showOverdueAlert
  /\ showOverdueAlert' = FALSE
  /\ UNCHANGED << view, mounted, now, calls, sent, dialog, loading, error,
                  requests, selectedIds, overdueRequests, dashboardVars >>

\* time passes; only RequestsReceived reads the clock
Tick ==
  /\ view = "RequestsReceived"
  /\ Idle
  /\ now < SevenDaysMs + MaxTick
  /\ now' = now + 1
  /\ UNCHANGED << view, mounted, calls, sent, dialog, loading, error,
                  requests, receivedVars, dashboardVars >>

\* ------------------------------------------------ Dashboard: fetching ---
\* Promise.all of the three GETs of fetchData: fulfilled counts the GETs
\* already answered, st is the state of the Promise.all promise
FetchDataPromise ==
  [op |-> "fetchData", st |-> "pending", fulfilled |-> 0,
   balance |-> NoBalance, made |-> << >>, list |-> << >>,
   message |-> Undefined]

GetAll ==
  << Request("GET", "/company/balance", NoId, NoBody),
     Request("GET", "/requests/made", NoId, NoBody),
     Request("GET", "/company/list", NoId, NoBody) >>

MountDashboard ==
  /\ view = "Dashboard" /\ ~mounted
  /\ mounted' = TRUE
  /\ loading' = TRUE                                       \* fetchData()
  /\ sent' = GetAll
  /\ calls' = Put(FetchDataPromise)
  /\ UNCHANGED << view, now, dialog, error, requests, receivedVars,
                  dashboardVars >>

\* One of the three responses arrives, in any order: a rejection rejects
\* the Promise.all promise whatever was fulfilled before it, the third
\* fulfilment fulfils it with the three bodies.  The component cannot read
\* a body before that, so the bodies are drawn when the promise is
\* fulfilled.
RespondFetchDataPart ==
  \E c \in Settled("fetchData", "pending") :
    /\ Idle
    /\ \/ /\ c.fulfilled + 1 < 3
          /\ calls' = Swap(c, [c EXCEPT !.fulfilled = @ + 1])
       \/ /\ c.fulfilled + 1 = 3
          /\ \E b \in Balances, l \in Lists, cl \in CompanyLists :
               calls' = Swap(c, [c EXCEPT !.fulfilled = 3, !.st = "ok",
                                          !.balance = b, !.made = l,
                                          !.list = cl])
       \/ \E m \in BackendMessages :
            calls' = Swap(c, [c EXCEPT !.st = "err", !.message = m])
    /\ UNCHANGED << view, mounted, now, sent, dialog, loading, error,
                    requests, receivedVars, dashboardVars >>

\* fetchData after the await, the try block and finally
FetchDataThen ==
  \E c \in Settled("fetchData", "ok") :
    /\ CanRun("Dashboard")
    /\ balance' = c.balance
    /\ requests' = c.made
    /\ companies' = c.list
    /\ error' = ""
    /\ loading' = FALSE
    /\ calls' = Take(c)
    /\ UNCHANGED << view, mounted, now, sent, dialog, receivedVars,
                    showRequestForm, editingRequest, formData >>

\* mutant of FetchDataCatch: the three GETs are awaited one after the
\* other, so the balance fulfilled before the rejection is displayed
FetchDataCatchKeepingParts ==
  \E c \in Settled("fetchData", "err") :
    /\ CanRun("Dashboard")
    /\ IF c.fulfilled > 0
       THEN \E b \in Balances : balance' = b
       ELSE balance' = balance
    /\ error' = ErrorText(c.message, "Failed to fetch data")
    /\ loading' = FALSE
    /\ calls' = Take(c)
    /\ UNCHANGED << view, mounted, now, sent, dialog, requests,
                    receivedVars, companies, showRequestForm,
                    editingRequest, formData >>

\* fetchData after the await, catch and finally
FetchDataCatch ==
  \E c \in Settled("fetchData", "err") :
    /\ CanRun("Dashboard")
    /\ error' = ErrorText(c.message, "Failed to fetch data")
    /\ loading' = FALSE
    /\ calls' = Take(c)
    /\ UNCHANGED << view, mounted, now, sent, dialog, requests,
                    receivedVars, dashboardVars >>

\* ---------------------------------------------------- Dashboard: form ---
DefaultForm ==
  [recipientId |-> "", type |-> "BUY", price |-> "", quantity |-> "",
   reason |-> ""]

\* the JSON body of POST /requests and PUT /requests/{id}
Body(fd) ==
  [recipientId |-> parseInt(fd.recipientId), type |-> fd.type,
   price |-> parseFloat(fd.price), quantity |-> parseFloat(fd.quantity),
   reason |-> fd.reason]

\* the browser submits the form only with its required controls filled
Valid(fd) ==
  fd.recipientId # "" /\ fd.type # "" /\ fd.price # "" /\ fd.quantity # ""

\* the New Request / Cancel button of the section header:
\* resetForm(); setShowRequestForm(!showRequestForm)
ToggleRequestForm ==
  /\ Interactive("Dashboard")
  /\ formData' = DefaultForm
  /\ editingRequest' = NoId
  /\ showRequestForm' = ~showRequestForm
  /\ UNCHANGED << view, mounted, now, calls, sent, dialog, loading, error,
                  requests, receivedVars, balance, companies >>

\* the Cancel button of the form
resetForm ==
  /\ Interactive("Dashboard")
  /\ showRequestForm
  /\ formData' = DefaultForm
  /\ editingRequest' = NoId
  /\ showRequestForm' = FALSE
  /\ UNCHANGED << view, mounted, now, calls, sent, dialog, loading, error,
                  requests, receivedVars, balance, companies >>

handleEditClick(request) ==
  /\ Interactive("Dashboard")
  /\ Includes(requests, request)
  /\ editingRequest' = request
  /\ formData' =
       [recipientId |-> toString(RecipientId(request)),
        type |-> Type(request),
        price |-> toString(Price(request)),
        quantity |-> toString(Quantity(request)),
        reason |-> IF Reason(request) = Undefined \/ Reason(request) = ""
                   THEN "" ELSE Reason(request)]
  /\ showRequestForm' = TRUE
  /\ UNCHANGED << view, mounted, now, calls, sent, dialog, loading, error,
                  requests, receivedVars, balance, companies >>

\* onChange of one control: setFormData({ ...formData, [field]: value })
OnChange ==
  /\ Interactive("Dashboard")
  /\ showRequestForm
  /\ \/ \E v \in { "" } \cup { toString(c) : c \in Elems(companies) } :
          \* <option value="">Select a company</option>, then the companies
          formData' = [formData EXCEPT !.recipientId = v]
     \/ \E v \in TypeOptions : formData' = [formData EXCEPT !.type = v]
     \/ \E v \in PriceInputs : formData' = [formData EXCEPT !.price = v]
     \/ \E v \in QuantityInputs : formData' = [formData EXCEPT !.quantity = v]
     \/ \E v \in ReasonInputs : formData' = [formData EXCEPT !.reason = v]
  /\ UNCHANGED << view, mounted, now, calls, sent, dialog, loading, error,
                  requests, receivedVars, balance, companies,
                  showRequestForm, editingRequest >>

\* ------------------------------------ Dashboard: create / update / delete ---
\* nothing of the closure is read after these awaits
MutationPromise(fn) ==
  [op |-> fn, st |-> "pending", message |-> Undefined]

PostRequest(fd) == Request("POST", "/requests", NoId, Body(fd))
PutRequest(id, fd) == Request("PUT", "/requests/{id}", id, Body(fd))
DeleteRequest(id) == Request("DELETE", "/requests/{id}", id, NoBody)

\* refetch started by a continuation: fetchData()
FetchDataAfter(c) ==
  /\ loading' = TRUE
  /\ sent' = GetAll
  /\ calls' = Swap(c, FetchDataPromise)

\* submit of the form rendered with editingRequest === null, up to the await
handleCreateRequest ==
  /\ Interactive("Dashboard")
  /\ showRequestForm /\ Valid(formData)
  /\ editingRequest = NoId
  /\ InFlight < MaxInFlight
  /\ sent' = << PostRequest(formData) >>
  /\ calls' = Put(MutationPromise("handleCreateRequest"))
  /\ UNCHANGED << view, mounted, now, dialog, loading, error, requests,
                  receivedVars, dashboardVars >>

\* mutant of CreateThen: resetForm() is not called
CreateThenWithoutReset ==
  \E c \in Settled("handleCreateRequest", "ok") :
    /\ CanRun("Dashboard")
    /\ showRequestForm' = FALSE
    /\ FetchDataAfter(c)
    /\ UNCHANGED << view, mounted, now, dialog, error, requests,
                    receivedVars, balance, companies, editingRequest,
                    formData >>

CreateThen ==
  \E c \in Settled("handleCreateRequest", "ok") :
    /\ CanRun("Dashboard")
    /\ showRequestForm' = FALSE       \* setShowRequestForm(false); resetForm()
    /\ formData' = DefaultForm
    /\ editingRequest' = NoId
    /\ FetchDataAfter(c)
    /\ UNCHANGED << view, mounted, now, dialog, error, requests,
                    receivedVars, balance, companies >>

CreateCatch ==
  \E c \in Settled("handleCreateRequest", "err") :
    /\ CanRun("Dashboard")
    /\ error' = ErrorText(c.message, "Failed to create request")
    /\ calls' = Take(c)
    /\ UNCHANGED << view, mounted, now, sent, dialog, loading, requests,
                    receivedVars, dashboardVars >>

\* submit of the form rendered with an editingRequest, up to the await
handleUpdateRequest ==
  /\ Interactive("Dashboard")
  /\ showRequestForm /\ Valid(formData)
  /\ editingRequest # NoId
  /\ InFlight < MaxInFlight
  /\ IF editingRequest = NoId
     THEN UNCHANGED << calls, sent >>                       \* return
     ELSE /\ sent' = << PutRequest(editingRequest, formData) >>
          /\ calls' = Put(MutationPromise("handleUpdateRequest"))
  /\ UNCHANGED << view, mounted, now, dialog, loading, error, requests,
                  receivedVars, dashboardVars >>

UpdateThen ==
  \E c \in Settled("handleUpdateRequest", "ok") :
    /\ CanRun("Dashboard")
    /\ editingRequest' = NoId         \* setEditingRequest(null); resetForm()
    /\ formData' = DefaultForm
    /\ showRequestForm' = FALSE
    /\ FetchDataAfter(c)
    /\ UNCHANGED << view, mounted, now, dialog, error, requests,
                    receivedVars, balance, companies >>

UpdateCatch ==
  \E c \in Settled("handleUpdateRequest", "err") :
    /\ CanRun("Dashboard")
    /\ error' = ErrorText(c.message, "Failed to update request")
    /\ calls' = Take(c)
    /\ UNCHANGED << view, mounted, now, sent, dialog, loading, requests,
                    receivedVars, dashboardVars >>

\* the Delete button of a table row, up to window.confirm
handleDeleteRequest(id) ==
  /\ Interactive("Dashboard")
  /\ Includes(requests, id)
  /\ InFlight < MaxInFlight
  /\ dialog' = [fn |-> "handleDeleteRequest", action |-> "", id |-> id,
                ids |-> << >>, answer |-> "open"]
  /\ UNCHANGED << view, mounted, now, calls, sent, loading, error, requests,
                  receivedVars, dashboardVars >>

\* handleDeleteRequest from the return of window.confirm to the await
DeleteAfterConfirm ==
  /\ view = "Dashboard"
  /\ dialog.fn = "handleDeleteRequest" /\ dialog.answer \in { "yes", "no" }
  /\ dialog' = NoDialog
  /\ IF dialog.answer = "no"
     THEN UNCHANGED << calls, sent >>                       \* return
     ELSE /\ sent' = << DeleteRequest(dialog.id) >>
          /\ calls' = Put(MutationPromise("handleDeleteRequest"))
  /\ UNCHANGED << view, mounted, now, loading, error, requests,
                  receivedVars, dashboardVars >>

DeleteThen ==
  \E c \in Settled("handleDeleteRequest", "ok") :
    /\ CanRun("Dashboard")
    /\ FetchDataAfter(c)
    /\ UNCHANGED << view, mounted, now, dialog, error, requests,
                    receivedVars, dashboardVars >>

DeleteCatch ==
  \E c \in Settled("handleDeleteRequest", "err") :
    /\ CanRun("Dashboard")
    /\ error' = ErrorText(c.message, "Failed to delete request")
    /\ calls' = Take(c)
    /\ UNCHANGED << view, mounted, now, sent, dialog, loading, requests,
                    receivedVars, dashboardVars >>

\* ------------------------------------------------------ specification ---
Init ==
  /\ view \in { "Dashboard", "RequestsReceived" }
  /\ mounted = FALSE
  /\ now = SevenDaysMs
  /\ calls = EmptyBag
  /\ sent = << >>
  /\ dialog = NoDialog
  /\ loading = TRUE
  /\ error = ""
  /\ requests = << >>
  /\ selectedIds = << >>
  /\ showOverdueAlert = FALSE
  /\ overdueRequests = << >>
  /\ balance = NoBalance
  /\ companies = << >>
  /\ showRequestForm = FALSE
  /\ editingRequest = NoId
  /\ formData = DefaultForm

NextReceived ==
  \/ Tick
  \/ Transmit
  \/ AnswerConfirm
  \/ RespondMutation
  \/ MountReceived
  \/ RespondFetchRequests
  \/ FetchRequestsThen
  \/ FetchRequestsCatch
  \/ \E id \in ReqIds, a \in Actions : handleProcessRequest(id, a)
  \/ ProcessThen
  \/ ProcessCatch
  \/ \E a \in Actions : handleBulkProcess(a)
  \/ BulkAfterConfirm
  \/ RespondBulk
  \/ BulkThen
  \/ BulkCatch
  \/ \E id \in ReqIds : handleCheckboxChange(id)
  \/ handleSelectAll
  \/ CloseOverdueAlert

NextDashboard ==
  \/ Transmit
  \/ AnswerConfirm
  \/ RespondMutation
  \/ MountDashboard
  \/ RespondFetchDataPart
  \/ FetchDataThen
  \/ FetchDataCatch
  \/ ToggleRequestForm
  \/ resetForm
  \/ \E r \in ReqIds : handleEditClick(r)
  \/ OnChange
  \/ handleCreateRequest
  \/ CreateThen
  \/ CreateCatch
  \/ handleUpdateRequest
  \/ UpdateThen
  \/ UpdateCatch
  \/ \E id \in ReqIds : handleDeleteRequest(id)
  \/ DeleteAfterConfirm
  \/ DeleteThen
  \/ DeleteCatch

Next == NextReceived \/ NextDashboard

Spec == Init /\ [][Next]_vars

\* the page /requests-received
InitReceived == Init /\ view = "RequestsReceived"

SpecReceived == InitReceived /\ [][NextReceived]_vars

\* the page /dashboard
InitDashboard == Init /\ view = "Dashboard"

SpecDashboard == InitDashboard /\ [][NextDashboard]_vars

\* ------------------------------------------------------------- claims ---
\* the continuation of the settled promise c runs in this step
Continued(c) == c.st # "pending" /\ CopiesIn(c, calls') < CopiesIn(c, calls)

\* a promise of this kind is created in this step
Started(c) == CopiesIn(c, calls') > CopiesIn(c, calls)

Urls(reqs) == { reqs[i].url : i \in 1..Len(reqs) }

\* C1: when the code after a successful GET /requests/received runs and the
\* response holds a request created more than seven days before that moment,
\* the alert is shown and overdueRequests is the response restricted to the
\* requests created more than seven days ago, in the response's order; and
\* whenever overdueRequests is written, nothing created seven days ago or
\* less is in it.
C1_OverdueAfterFetch ==
  [][ /\ \A c \in Settled("fetchRequests", "ok") :
           Continued(c) =>
             LET old == { r \in ReqIds : now - CreatedAt(r) > SevenDaysMs }
             IN Elems(c.data) \cap old # { } =>
                  /\ showOverdueAlert'
                  /\ overdueRequests' = Filter(c.data, old)
      /\ overdueRequests' # overdueRequests =>
           \A r \in Elems(overdueRequests') :
             ~(now - CreatedAt(r) <= SevenDaysMs)
    ]_vars

\* C1 witness: a fetch answered with requests 1 and 2 left request 1, which
\* is seven days old or less, out of the alert and put request 2 in it
C1_Witness ==
  /\ view = "RequestsReceived" /\ ~loading
  /\ showOverdueAlert
  /\ requests = << 1, 2 >>
  /\ overdueRequests = << 2 >>
  /\ now = SevenDaysMs + MaxTick

\* C2: whenever the overdue alert is on screen, the requests it lists are
\* the requests of the displayed table that isOverdue marks.
C2_AlertListsDisplayedOverdue ==
  (view = "RequestsReceived" /\ ~loading /\ showOverdueAlert) =>
    overdueRequests = Filter(requests, { r \in ReqIds : isOverdue(r) })

\* the default message of the operation a promise belongs to
DefaultMessage(c) ==
  CASE c.op = "fetchRequests" -> "Failed to fetch requests"
    [] c.op = "handleProcessRequest" ->
         IF c.action = "ACCEPT" THEN "Failed to accept request"
         ELSE "Failed to reject request"
    [] c.op = "handleBulkProcess" -> "Failed to process requests"
    [] c.op = "fetchData" -> "Failed to fetch data"
    [] c.op = "handleCreateRequest" -> "Failed to create request"
    [] c.op = "handleUpdateRequest" -> "Failed to update request"
    [] c.op = "handleDeleteRequest" -> "Failed to delete request"

\* C3: when the code after a failed API call runs, error becomes the
\* backend's message if the response carries one and the operation's default
\* message otherwise, loading becomes false if the call was a data fetch,
\* no request is issued and nothing else changes.
C3_FailureOnlySetsError ==
  [][ \A c \in BagToSet(calls) :
        (c.st = "err" /\ Continued(c)) =>
          /\ error' = IF c.message = Undefined THEN DefaultMessage(c)
                      ELSE c.message
          /\ loading' = IF c.op \in { "fetchData", "fetchRequests" }
                        THEN FALSE ELSE loading
          /\ calls' = calls (-) SetToBag({c})
          /\ sent' = << >>
          /\ UNCHANGED << balance, requests, companies, selectedIds,
                          showOverdueAlert, overdueRequests, formData,
                          showRequestForm, editingRequest >>
    ]_vars

\* C3 witness: a bulk process failed without a backend message and left the
\* selection and the table as they were
C3_Witness ==
  /\ view = "RequestsReceived"
  /\ error = "Failed to process requests"
  /\ selectedIds = << 2, 1 >>
  /\ requests = << 1, 2 >>
  /\ calls = EmptyBag /\ ~loading

\* C4: a POST /requests/bulk-process is issued only by handleBulkProcess
\* resuming from a confirm answered OK, with a non-empty selection, and its
\* requestIds are selectedIds, unchanged since the click; a DELETE is issued
\* only by handleDeleteRequest resuming from a confirm answered OK; a
\* handler resuming from a confirm answered Cancel issues no request and
\* changes no state.
C4_ConfirmedOnlyMutation ==
  [][ /\ "/requests/bulk-process" \in Urls(sent') \ Urls(sent) =>
           /\ dialog.fn = "handleBulkProcess" /\ dialog.answer = "yes"
           /\ selectedIds # << >>
           /\ sent' = << [method |-> "POST", url |-> "/requests/bulk-process",
                          id |-> NoId,
                          body |-> [requestIds |-> selectedIds,
                                    action |-> dialog.action]] >>
      /\ dialog'.fn = "handleBulkProcess" =>
           dialog'.ids = selectedIds /\ selectedIds' = selectedIds
      /\ (\E i \in 1..Len(sent') : sent'[i].method = "DELETE") /\ sent = << >> =>
           /\ dialog.fn = "handleDeleteRequest" /\ dialog.answer = "yes"
           /\ sent' = << [method |-> "DELETE", url |-> "/requests/{id}",
                          id |-> dialog.id, body |-> NoBody] >>
      /\ (dialog.answer = "no" /\ dialog' # dialog) =>
           /\ dialog' = NoDialog
           /\ UNCHANGED << view, mounted, now, calls, sent, loading, error,
                           requests, receivedVars, dashboardVars >>
    ]_vars

\* C4 witness: a confirmed bulk reject of the two selected requests is being
\* sent with exactly the selection, in the order it was made
C4_Witness ==
  /\ sent = << [method |-> "POST", url |-> "/requests/bulk-process",
                id |-> NoId,
                body |-> [requestIds |-> << 2, 1 >>, action |-> "REJECT"]] >>
  /\ selectedIds = << 2, 1 >>
  /\ dialog = NoDialog

\* C5: fetchData issues its three GETs in one task; balance, requests and
\* companies are written only by the continuation of a fetchData whose
\* three GETs were all fulfilled, all three from that promise's bodies and
\* with error cleared; the continuation of a rejected fetchData, however
\* many GETs were fulfilled before the rejection, writes none of the three
\* and sets error.
C5_FetchDataAllOrNothing ==
  [][ /\ \A c \in BagToSet(calls) :
           (c.op = "fetchData" /\ Continued(c)) =>
             IF c.st = "ok"
             THEN /\ c.fulfilled = 3
                  /\ balance' = c.balance /\ requests' = c.made
                  /\ companies' = c.list /\ error' = ""
             ELSE /\ UNCHANGED << balance, requests, companies >>
                  /\ error' # ""
      /\ << balance, requests, companies >>' # << balance, requests, companies >> =>
           \E c \in Settled("fetchData", "ok") : Continued(c)
      /\ (\E c \in BagToSet(calls') :
            /\ c.op = "fetchData" /\ c.st = "pending" /\ c.fulfilled = 0
            /\ Started(c)) =>
           /\ Len(sent') = 3
           /\ Urls(sent') = { "/company/balance", "/requests/made",
                              "/company/list" }
    ]_vars

\* C5 witness: a refetch was rejected after an earlier one had succeeded,
\* and the data of the earlier one is still displayed under the banner
C5_Witness ==
  /\ view = "Dashboard" /\ ~loading
  /\ error = "Failed to fetch data"
  /\ balance # NoBalance /\ requests = << 1, 2 >> /\ companies # << >>

\* C6: a task that issues POST /requests or PUT /requests/{id} issues that
\* one request only, from the open form: the PUT with the id of the request
\* under edit if there is one, else the POST; and when the code after a
\* successful create or update runs, the form is closed, editingRequest is
\* null, the fields are back to their defaults and a fetchData is started.
C6_SubmitOneCall ==
  [][ /\ (\E i \in 1..Len(sent') : sent'[i].method \in { "POST", "PUT" })
         /\ sent = << >> =>
           /\ Len(sent') = 1 /\ showRequestForm
           /\ IF editingRequest # NoId
              THEN /\ sent'[1].method = "PUT"
                   /\ sent'[1].url = "/requests/{id}"
                   /\ sent'[1].id = editingRequest
              ELSE /\ sent'[1].method = "POST"
                   /\ sent'[1].url = "/requests"
      /\ \A c \in BagToSet(calls) :
           ( /\ c.op \in { "handleCreateRequest", "handleUpdateRequest" }
             /\ c.st = "ok" /\ Continued(c) ) =>
             /\ ~showRequestForm' /\ editingRequest' = NoId
             /\ formData' = [recipientId |-> "", type |-> "BUY", price |-> "",
                             quantity |-> "", reason |-> ""]
             /\ loading'
             /\ Urls(sent') = { "/company/balance", "/requests/made",
                                "/company/list" }
             /\ \E f \in BagToSet(calls') :
                  f.op = "fetchData" /\ f.st = "pending" /\ Started(f)
    ]_vars

\* C6 witness: the edit form of request 2 is being submitted as a PUT of
\* request 2
C6_Witness ==
  /\ view = "Dashboard"
  /\ Len(sent) = 1 /\ sent[1].method = "PUT" /\ sent[1].id = 2
  /\ editingRequest = 2 /\ showRequestForm

\* C7: when the code after a successful single accept/reject or a
\* successful bulk process runs, whatever was selected and however many
\* items the backend reports as failed, selectedIds becomes empty and a
\* fetch of the received requests is started.
C7_ProcessClearsAndRefetches ==
  [][ \A c \in BagToSet(calls) :
        ( /\ c.op \in { "handleProcessRequest", "handleBulkProcess" }
          /\ c.st = "ok" /\ Continued(c) ) =>
          /\ selectedIds' = << >>
          /\ loading'
          /\ Urls(sent') = { "/requests/received" } /\ Len(sent') = 1
          /\ \E f \in BagToSet(calls') :
               f.op = "fetchRequests" /\ f.st = "pending" /\ Started(f)
    ]_vars

\* C7 witness: the refetch that follows a successful accept, reject or bulk
\* process is being sent over the table the operation acted on, with the
\* selection emptied
C7_Witness ==
  /\ view = "RequestsReceived" /\ loading
  /\ requests = << 1, 2 >>
  /\ sent = << GetReceived >>
  /\ selectedIds = << >>
  /\ \E c \in BagToSet(calls) : c.op = "fetchRequests" /\ c.st = "pending"

\* C8: loading is never false while a data fetch awaits its response.
C8_LoadingWhileFetching ==
  (\E c \in BagToSet(calls) :
     c.op \in { "fetchData", "fetchRequests" } /\ c.st = "pending") => loading
====
